---------------------------- MODULE Spec2Model ----------------------------
(***************************************************************************)
(* Multi-tier conversational memory of the chat assistant:                 *)
(*   ShortTermMemory      (memory/short_term.py)    the Rolling Buffer     *)
(*   LongTermMemory       (memory/long_term.py)     the Message Store      *)
(*   SemanticMemory       (memory/semantic_memory.py) the Semantic Index   *)
(*   UnifiedMemoryManager (memory/memory_manager.py) the manager           *)
(*   ChatAssistantService (chat_assistant/service.py) the manager cache    *)
(*                                                                         *)
(* Three specifications share the operators below:                         *)
(*   SpecBuffer  one ShortTermMemory object driven through its own API     *)
(*   Spec        manager instances sharing one Message Store               *)
(*   SpecCache   one ChatAssistantService and its manager cache            *)
(***************************************************************************)
EXTENDS Integers, Sequences, FiniteSets, TLC

VARIABLES
    stm,        \* SpecBuffer: the ShortTermMemory object [k, msgs]
    stmLog,     \* SpecBuffer: (role, content) of every accepted add_message since the buffer was last empty
    stmLast,    \* SpecBuffer: what the last call did
    settings,   \* Spec/SpecCache: config.settings (memory_buffer_messages, memory_summary_trigger)
    db,         \* Spec/SpecCache: the database (chat_sessions, chat_messages, clock)
    disk,       \* Spec/SpecCache: the vector indexes saved under vector_storage_path, per session
    mgrs,       \* Spec: the manager instances in use, by slot
    nAdds,      \* Spec: per session, how many LongTermMemory.add_message calls committed
    writers,    \* Spec: per session, the manager instances that wrote a message to it
    nextSerial, \* Spec/SpecCache: number of UnifiedMemoryManager objects constructed so far
    ret,        \* Spec: what the last manager call did and returned
    cache,      \* SpecCache: ChatAssistantService._memory_manager_cache, in dict order
    reqLog,     \* SpecCache: the _get_or_create_memory_manager calls made so far
    cret,       \* SpecCache: what the last _get_or_create_memory_manager call did
    sem,        \* SpecIndex: the vector_store of the SemanticMemory object
    semLast,    \* SpecIndex: what the last SemanticMemory call did and returned
    rf          \* SpecReformulator: the last reformulate_query call, its inputs and its result

vars == <<stm, stmLog, stmLast, settings, db, disk, mgrs, nAdds, writers, nextSerial, ret, cache, reqLog, cret, sem, semLast, rf>>
bufVars == <<stm, stmLog, stmLast>>
mgrVars == <<mgrs, nAdds, writers, ret>>
cacheVars == <<cache, reqLog, cret>>
idxVars == <<sem, semLast>>
rfVars == <<rf>>
sharedVars == <<settings, db, disk, nextSerial>>

-----------------------------------------------------------------------------
(* Bounds of the model *)

\* largest messages_to_keep a ShortTermMemory is constructed with in SpecBuffer
MaxKeep == 3
\* accepted add_message calls on the buffer of SpecBuffer
MaxBufAdds == 8
\* longest batch given to load_messages_batch in SpecBatch
MaxBatchLen == 7
\* settings.memory_buffer_messages (default 10) and settings.memory_summary_trigger
\* (default 15), scaled down
BufferMessages == 2
SummaryTrigger == 2
\* messages committed to the store in one behaviour of Spec
MaxMsgs == 4
\* UnifiedMemoryManager objects constructed in one behaviour
MaxManagers == 3
\* ChatAssistantService._max_cache_size (50 in the source), scaled down
MaxCacheSize == 2
\* _get_or_create_memory_manager calls in one behaviour of SpecCache
MaxCalls == 4
\* process_chat_message calls in one behaviour of SpecChat
MaxChatCalls == 2
\* messages added in one run of SpecScenario
MaxScenarioMsgs == 21
\* documents an index holds before SpecIndex stops adding to it
MaxIndexDocs == 3

-----------------------------------------------------------------------------
(* Python helpers *)

Min(a, b) == IF a < b THEN a ELSE b

Max(a, b) == IF a > b THEN a ELSE b

\* seq[-n:] for n >= 1: the last n items, or all of them when there are fewer
LastN(seq, n) ==
    SubSeq(seq, Max(1, Len(seq) - n + 1), Len(seq))

\* seq[:n]
FirstN(seq, n) ==
    SubSeq(seq, 1, Min(n, Len(seq)))

\* list(reversed(seq))
Reversed(seq) ==
    [i \in 1..Len(seq) |-> seq[Len(seq) + 1 - i]]

-----------------------------------------------------------------------------
(* ShortTermMemory: the Rolling Buffer *)

Roles == {"user", "assistant"}

\* ShortTermMemory.__init__: an empty buffer that keeps k messages
STM_init(k) ==
    [k |-> k, msgs |-> <<>>]

\* the langchain message object add_message builds for a role
STM_wrap(role, content) ==
    [type |-> IF role = "user" THEN "HumanMessage" ELSE "AIMessage", content |-> content]

\* the trim at the end of add_message (mutant: the buffer is let grow to 3k before the trim)
STM_trim_late(msgs, k) ==
    IF Len(msgs) > k * 3 THEN LastN(msgs, k) ELSE msgs

\* the trim at the end of add_message (mutant: compares against 2k but keeps the first k)
STM_trim_head(msgs, k) ==
    IF Len(msgs) > k * 2 THEN FirstN(msgs, k) ELSE msgs

\* the trim at the end of add_message (mutant: one message fewer than k is kept)
STM_trim_short(msgs, k) ==
    IF Len(msgs) > k * 2 THEN LastN(msgs, k - 1) ELSE msgs

\* the trim at the end of add_message (mutant: trims as soon as there are more than k)
STM_trim_eager(msgs, k) ==
    IF Len(msgs) > k THEN LastN(msgs, k) ELSE msgs

\* the trim at the end of add_message: over 2k entries, keep the last k
STM_trim(msgs, k) ==
    IF Len(msgs) > k * 2 THEN LastN(msgs, k) ELSE msgs

\* ShortTermMemory.add_message (mutant: any other role is stored as an assistant message)
STM_add_message_lenient(s, role, content) ==
    [msgs |-> STM_trim(Append(s.msgs, STM_wrap(role, content)), s.k), raised |-> FALSE]

\* ShortTermMemory.add_message: [msgs, raised]; an invalid role raises before anything is appended
STM_add_message(s, role, content) ==
    IF role \in Roles
    THEN [msgs |-> STM_trim(Append(s.msgs, STM_wrap(role, content)), s.k), raised |-> FALSE]
    ELSE [msgs |-> s.msgs, raised |-> TRUE]

\* ShortTermMemory.clear
STM_clear(s) ==
    [s EXCEPT !.msgs = <<>>]

\* the role get_recent_messages reports for a buffered message object
STM_role(m) ==
    IF m.type = "HumanMessage" THEN "user" ELSE "assistant"

\* ShortTermMemory.get_recent_messages(limit): role/content dicts of the last limit entries (all when limit is 0 or None)
STM_get_recent_messages(msgs, limit) ==
    LET picked == IF limit = 0 THEN msgs ELSE LastN(msgs, limit)
    IN  [i \in 1..Len(picked) |-> [role |-> STM_role(picked[i]), content |-> picked[i].content]]

\* ShortTermMemory.load_messages_batch: appends every message of the batch, no trim
STM_load_messages_batch(msgs, batch) ==
    msgs \o [i \in 1..Len(batch) |-> STM_wrap(batch[i].role, batch[i].content)]

-----------------------------------------------------------------------------
(* LongTermMemory: the Message Store.  A database value is
     [sessions: session_id -> chat_sessions row, messages: set of chat_messages rows, clock].
   A chat_messages row takes its timestamp from the database clock at the
   insert (server_default now()); every insert is its own transaction, so
   timestamps are distinct.  last_activity, sources and token_count are not
   modelled: no operation reads them back. *)

\* Python None, for the nullable summary and user_id
None == "<None>"

\* LongTermMemory.get_session: whether the query finds a row
LTM_has_session(d, session_id) ==
    session_id \in DOMAIN d.sessions

\* LongTermMemory.create_session: insert the row with the counter at zero, commit
LTM_create_session(d, session_id, pdf_ids, user_id) ==
    [d EXCEPT !.sessions = (session_id :> [pdf_ids |-> pdf_ids, user_id |-> user_id, total_messages |-> 0, summary |-> None]) @@ @]

\* LongTermMemory.get_or_create_session (mutant: an existing row takes the caller's pdf_ids and user_id)
LTM_get_or_create_session_updating(d, session_id, pdf_ids, user_id) ==
    IF LTM_has_session(d, session_id)
    THEN [d EXCEPT !.sessions[session_id].pdf_ids = pdf_ids, !.sessions[session_id].user_id = user_id]
    ELSE LTM_create_session(d, session_id, pdf_ids, user_id)

\* LongTermMemory.get_or_create_session: an existing row is returned as it is
LTM_get_or_create_session(d, session_id, pdf_ids, user_id) ==
    IF LTM_has_session(d, session_id) THEN d ELSE LTM_create_session(d, session_id, pdf_ids, user_id)

\* the chat_messages rows of a session (filter on session_id)
LTM_rows(d, session_id) ==
    {m \in d.messages : m.session_id = session_id}

RECURSIVE OrderByTimestamp(_)
\* ORDER BY timestamp
OrderByTimestamp(S) ==
    IF S = {} THEN <<>>
    ELSE LET m == CHOOSE x \in S : \A y \in S : x.timestamp <= y.timestamp
         IN  <<m>> \o OrderByTimestamp(S \ {m})

RECURSIVE OrderByTimestampDesc(_)
\* ORDER BY timestamp DESC
OrderByTimestampDesc(S) ==
    IF S = {} THEN <<>>
    ELSE LET m == CHOOSE x \in S : \A y \in S : x.timestamp >= y.timestamp
         IN  <<m>> \o OrderByTimestampDesc(S \ {m})

\* LongTermMemory.get_messages(session_id, limit, offset); limit 0 stands for None
LTM_get_messages(d, session_id, limit, offset) ==
    LET all == OrderByTimestamp(LTM_rows(d, session_id))
        skipped == IF offset # 0 THEN SubSeq(all, offset + 1, Len(all)) ELSE all
    IN  IF limit # 0 THEN FirstN(skipped, limit) ELSE skipped

\* get_recent_messages (mutant: the descending page is returned without reversing it)
LTM_get_recent_messages_unreversed(d, session_id, limit) ==
    FirstN(OrderByTimestampDesc(LTM_rows(d, session_id)), limit)

\* LongTermMemory.get_recent_messages: newest first, limit, then reversed
LTM_get_recent_messages(d, session_id, limit) ==
    Reversed(FirstN(OrderByTimestampDesc(LTM_rows(d, session_id)), limit))

\* LongTermMemory.get_message_count
LTM_get_message_count(d, session_id) ==
    Cardinality(LTM_rows(d, session_id))

\* the counter add_message writes (mutant: the counter is left as loaded)
LTM_next_total_forgotten(session) ==
    session.total_messages

\* the counter add_message writes: the caller's session object's counter plus one
LTM_next_total(session) ==
    session.total_messages + 1

\* LongTermMemory.add_message(message_data, session): insert the row, write the
\* counter taken from the caller's session object, commit, refresh the object.
\* [db, session, message]
LTM_add_message(d, session, session_id, role, content) ==
    LET message == [session_id |-> session_id, role |-> role, content |-> content, timestamp |-> d.clock + 1]
        row == [d.sessions[session_id] EXCEPT !.total_messages = LTM_next_total(session)]
        d2 == [d EXCEPT !.messages = @ \cup {message}, !.sessions[session_id] = row, !.clock = @ + 1]
    IN  [db |-> d2, session |-> d2.sessions[session_id], message |-> message]

\* LongTermMemory.add_message when db.commit() raises: no row is inserted and
\* no counter is written; the caller's session object keeps the increment
\* made before the commit.  [db, session]
LTM_add_message_commit_fails(d, session) ==
    [db |-> d, session |-> [session EXCEPT !.total_messages = LTM_next_total(session)]]

\* LongTermMemory.update_session with only the summary given: write it, commit,
\* refresh.  [db, session]
LTM_update_session(d, session_id, summary) ==
    LET d2 == [d EXCEPT !.sessions[session_id].summary = summary]
    IN  [db |-> d2, session |-> d2.sessions[session_id]]

\* the rows left in chat_messages when a chat_sessions row is deleted (mutant:
\* the foreign key does not cascade)
LTM_messages_after_delete_kept(d, session_id) ==
    d.messages

\* the rows left in chat_messages when a chat_sessions row is deleted: the
\* foreign key on session_id is declared ondelete='CASCADE'
LTM_messages_after_delete(d, session_id) ==
    d.messages \ LTM_rows(d, session_id)

\* LongTermMemory.delete_session: [db, result]
LTM_delete_session(d, session_id) ==
    IF LTM_has_session(d, session_id)
    THEN [db |-> [d EXCEPT !.sessions = [x \in DOMAIN d.sessions \ {session_id} |-> d.sessions[x]],
                           !.messages = LTM_messages_after_delete(d, session_id)],
          result |-> TRUE]
    ELSE [db |-> d, result |-> FALSE]

-----------------------------------------------------------------------------
(* SemanticMemory: the Semantic Index.  vector_store is [exists, docs]: None
   or a FAISS index holding docs; disk maps a session to its saved docs.
   The embedding service and the index files are outside the repository: a
   call is given their outcome.  A failed save leaves the files as they
   were. *)

NoVectorStore == [exists |-> FALSE, docs |-> <<>>]

\* how the embedding call and the save that follows it turn out
IndexOutcomes == {"ok", "embed_fails", "save_fails"}

\* SemanticMemory._load_or_create_vector_store: the saved index, or None when
\* there is none or loading it fails (the failure is caught)
SEM_load_or_create_vector_store(dsk, session_id, loadOK) ==
    IF session_id \in DOMAIN dsk /\ loadOK THEN [exists |-> TRUE, docs |-> dsk[session_id]] ELSE NoVectorStore

\* SemanticMemory._save_vector_store: the new disk; a failure is caught
SEM_save_vector_store(vs, dsk, session_id, saveOK) ==
    IF vs.exists /\ saveOK THEN (session_id :> vs.docs) @@ dsk ELSE dsk

\* FAISS.from_documents / vector_store.add_documents followed by
\* _save_vector_store: [vector_store, disk, raised, added].  The embedding
\* call is not guarded: its failure leaves the method by exception.
SEM_add_documents(vs, dsk, session_id, documents, io) ==
    IF io = "embed_fails" THEN [vector_store |-> vs, disk |-> dsk, raised |-> TRUE, added |-> FALSE]
    ELSE LET vs2 == [exists |-> TRUE, docs |-> vs.docs \o documents]
         IN  [vector_store |-> vs2, disk |-> SEM_save_vector_store(vs2, dsk, session_id, io # "save_fails"),
              raised |-> FALSE, added |-> TRUE]

\* SemanticMemory.add_conversation_snippet: [vector_store, disk, raised, added].
\* Empty text is ignored; otherwise one document is added and the index saved.
SEM_add_conversation_snippet(vs, dsk, session_id, text, metadata, io) ==
    IF text = <<>> THEN [vector_store |-> vs, disk |-> dsk, raised |-> FALSE, added |-> FALSE]
    ELSE SEM_add_documents(vs, dsk, session_id, <<[page_content |-> text, metadata |-> metadata]>>, io)

\* the documents add_multiple_snippets builds: snippets with empty text are
\* skipped, the session id is written into each metadata
SEM_documents_of(session_id, snippets) ==
    LET kept == SelectSeq(snippets, LAMBDA sn : sn.text # <<>>)
    IN  [i \in 1..Len(kept) |-> [page_content |-> kept[i].text, metadata |-> [session_id |-> session_id]]]

\* SemanticMemory.add_multiple_snippets: [vector_store, disk, raised, added]
SEM_add_multiple_snippets(vs, dsk, session_id, snippets, io) ==
    IF SEM_documents_of(session_id, snippets) = <<>>
    THEN [vector_store |-> vs, disk |-> dsk, raised |-> FALSE, added |-> FALSE]
    ELSE SEM_add_documents(vs, dsk, session_id, SEM_documents_of(session_id, snippets), io)

\* settings.semantic_memory_top_k
SemanticMemoryTopK == 5

\* SemanticMemory.retrieve_similar_context: nothing without an index or when
\* the search fails; otherwise the text of up to top_k documents
SEM_retrieve_similar_context(vs, query, searchOK) ==
    IF ~vs.exists THEN <<>>
    ELSE IF ~searchOK THEN <<>>
    ELSE LET found == FirstN(vs.docs, SemanticMemoryTopK)
         IN  [i \in 1..Len(found) |-> found[i].page_content]

\* SemanticMemory.retrieve_with_scores: as retrieve_similar_context, each
\* text paired with its score (here its rank)
SEM_retrieve_with_scores(vs, query, searchOK) ==
    IF ~vs.exists THEN <<>>
    ELSE IF ~searchOK THEN <<>>
    ELSE LET found == FirstN(vs.docs, SemanticMemoryTopK)
         IN  [i \in 1..Len(found) |-> <<found[i].page_content, i>>]

\* SemanticMemory.clear (mutant: the directory of the saved index is left in place)
SEM_clear_in_memory(vs, dsk, session_id) ==
    [vector_store |-> NoVectorStore, disk |-> dsk]

\* SemanticMemory.clear: the index is dropped from memory and from disk.  [vector_store, disk]
SEM_clear(vs, dsk, session_id) ==
    [vector_store |-> NoVectorStore,
     disk |-> [x \in DOMAIN dsk \ {session_id} |-> dsk[x]]]

\* SemanticMemory.get_document_count
SEM_get_document_count(vs) ==
    IF ~vs.exists THEN 0 ELSE Len(vs.docs)

-----------------------------------------------------------------------------
(* The summarizer of ShortTermMemory.  The tokenizer and the LLM are outside
   the repository: a call is given the tokenizer's outcome on the buffer
   string and the LLM's outcome, "raise" or the stripped text of its reply.
   count_tokens is tokenizer.encode(text) with tiktoken's defaults, which
   returns the tokens or raises ValueError when the text contains the text
   of a special token such as <|endoftext|>. *)

\* settings.memory_max_tokens, the default max_tokens_before_summary
MemoryMaxTokens == 2000

\* fewest buffered messages get_conversation_summary summarizes
MinMessagesForSummary == 4

LlmOutcomes == {"raise", "", "s1", "s2"}

TokenCounts == {MemoryMaxTokens - 1, MemoryMaxTokens}

\* what count_tokens does with the buffer string: an exception or a count
TokenizerOutcomes == {[raises |-> TRUE, count |-> 0]} \cup {[raises |-> FALSE, count |-> c] : c \in TokenCounts}

\* ShortTermMemory.get_conversation_summary: [summary, invoked, raised].  The
\* LLM call is inside the try block, the token count before it is not.
STM_get_conversation_summary(s, tokens, llm) ==
    IF Len(s.msgs) < MinMessagesForSummary THEN [summary |-> "", invoked |-> FALSE, raised |-> FALSE]
    ELSE IF tokens.raises THEN [summary |-> "", invoked |-> FALSE, raised |-> TRUE]
    ELSE IF tokens.count < MemoryMaxTokens THEN [summary |-> "", invoked |-> FALSE, raised |-> FALSE]
    ELSE IF llm = "raise" THEN [summary |-> "", invoked |-> TRUE, raised |-> FALSE]
    ELSE [summary |-> llm, invoked |-> TRUE, raised |-> FALSE]

-----------------------------------------------------------------------------
(* UnifiedMemoryManager.  A manager value is
     [serial, session_id, pdf_ids, user_id, short_term, session, vector_store]
   where session is the manager's ChatSession object (the row as of the
   manager's last refresh) and vector_store the index its SemanticMemory
   holds in memory. *)

\* the role/content dicts _initialize_short_term_from_db builds from rows
UMM_messages_to_load(rows) ==
    [i \in 1..Len(rows) |-> [role |-> rows[i].role, content |-> rows[i].content]]

\* UnifiedMemoryManager._initialize_short_term_from_db (mutant: the oldest messages are loaded)
UMM_initialize_short_term_from_oldest(d, cfg, session_id) ==
    LET oldest == FirstN(LTM_get_messages(d, session_id, 0, 0), cfg.memory_buffer_messages)
    IN  [k |-> cfg.memory_buffer_messages, msgs |-> STM_load_messages_batch(<<>>, UMM_messages_to_load(oldest))]

\* UnifiedMemoryManager._initialize_short_term_from_db on the new ShortTermMemory()
UMM_initialize_short_term_from_db(d, cfg, session_id) ==
    LET recent == LTM_get_recent_messages(d, session_id, cfg.memory_buffer_messages)
    IN  [k |-> cfg.memory_buffer_messages, msgs |-> STM_load_messages_batch(<<>>, UMM_messages_to_load(recent))]

\* UnifiedMemoryManager.__init__: [mgr, db]
UMM_init(d, dsk, cfg, serial, session_id, pdf_ids, user_id, loadOK) ==
    LET d2 == LTM_get_or_create_session(d, session_id, pdf_ids, user_id)
    IN  [mgr |-> [serial |-> serial, session_id |-> session_id, pdf_ids |-> pdf_ids, user_id |-> user_id,
                  short_term |-> UMM_initialize_short_term_from_db(d2, cfg, session_id),
                  session |-> d2.sessions[session_id],
                  vector_store |-> SEM_load_or_create_vector_store(dsk, session_id, loadOK)],
         db |-> d2]

\* how many buffered messages make one snippet, and the fewest that do
SnippetMessages == 4

MinSnippetMessages == 2

\* every how many messages an assistant message is followed by a snippet
SnippetEvery == 4

\* the text of a snippet: one "role: content" line per message, in order
UMM_snippet_text(recent) ==
    [i \in 1..Len(recent) |-> [role |-> recent[i].role, content |-> recent[i].content]]

\* UnifiedMemoryManager._add_to_semantic_memory: [vector_store, disk, raised, submitted, text, added]
UMM_add_to_semantic_memory(m, dsk, io) ==
    LET recent == STM_get_recent_messages(m.short_term.msgs, SnippetMessages)
        text == UMM_snippet_text(recent)
        metadata == [session_id |-> m.session_id, message_count |-> Len(recent), total_messages |-> m.session.total_messages]
        r == SEM_add_conversation_snippet(m.vector_store, dsk, m.session_id, text, metadata, io)
    IN  IF Len(recent) >= MinSnippetMessages
        THEN [vector_store |-> r.vector_store, disk |-> r.disk, raised |-> r.raised, submitted |-> TRUE, text |-> text, added |-> r.added]
        ELSE [vector_store |-> m.vector_store, disk |-> dsk, raised |-> FALSE, submitted |-> FALSE, text |-> <<>>, added |-> FALSE]

\* the trigger of _check_and_update_summary
UMM_summary_due(total, cfg) ==
    /\ total >= cfg.memory_summary_trigger
    /\ total % cfg.memory_summary_trigger = 0

\* UnifiedMemoryManager._check_and_update_summary (mutant: an empty summary is persisted too)
UMM_check_and_update_summary_unguarded(m, d, cfg, tokens, llm) ==
    LET r == STM_get_conversation_summary(m.short_term, tokens, llm)
        u == LTM_update_session(d, m.session_id, r.summary)
    IN  IF UMM_summary_due(m.session.total_messages, cfg)
        THEN IF ~r.raised
             THEN [mgr |-> [m EXCEPT !.session = u.session], db |-> u.db, requested |-> TRUE, invoked |-> r.invoked, summary |-> r.summary, raised |-> FALSE]
             ELSE [mgr |-> m, db |-> d, requested |-> TRUE, invoked |-> r.invoked, summary |-> "", raised |-> r.raised]
        ELSE [mgr |-> m, db |-> d, requested |-> FALSE, invoked |-> FALSE, summary |-> "", raised |-> FALSE]

\* UnifiedMemoryManager._check_and_update_summary: [mgr, db, requested, invoked, summary, raised];
\* an exception out of get_conversation_summary is not caught here
UMM_check_and_update_summary(m, d, cfg, tokens, llm) ==
    LET r == STM_get_conversation_summary(m.short_term, tokens, llm)
        u == LTM_update_session(d, m.session_id, r.summary)
    IN  IF UMM_summary_due(m.session.total_messages, cfg)
        THEN IF r.summary # ""
             THEN [mgr |-> [m EXCEPT !.session = u.session], db |-> u.db, requested |-> TRUE, invoked |-> r.invoked, summary |-> r.summary, raised |-> FALSE]
             ELSE [mgr |-> m, db |-> d, requested |-> TRUE, invoked |-> r.invoked, summary |-> "", raised |-> r.raised]
        ELSE [mgr |-> m, db |-> d, requested |-> FALSE, invoked |-> FALSE, summary |-> "", raised |-> FALSE]

\* what an add call reports besides the new state
NoSnippet == [submitted |-> FALSE, text |-> <<>>, added |-> FALSE]

\* UnifiedMemoryManager.add_user_message: buffer, store, summary check
UMM_add_user_message(m, d, dsk, cfg, content, tokens, llm) ==
    LET b == STM_add_message(m.short_term, "user", content)
        w == LTM_add_message(d, m.session, m.session_id, "user", content)
        m2 == [m EXCEPT !.short_term.msgs = b.msgs, !.session = w.session]
        c == UMM_check_and_update_summary(m2, w.db, cfg, tokens, llm)
    IN  [mgr |-> c.mgr, db |-> c.db, disk |-> dsk, raised |-> IF c.raised THEN "tokenizer" ELSE "no", message |-> w.message,
         snippet |-> NoSnippet, requested |-> c.requested, invoked |-> c.invoked, summary |-> c.summary]

\* add_user_message / add_assistant_message when the store write raises
\* (mutant: the store is written before the buffer, so the buffer is not reached)
UMM_add_message_store_fails_store_first(m, d, role, content) ==
    LET w == LTM_add_message_commit_fails(d, m.session)
    IN  [mgr |-> [m EXCEPT !.session = w.session], db |-> w.db, raised |-> "store"]

\* add_user_message / add_assistant_message when the store write raises: the
\* buffer was appended to, the exception of long_term.add_message leaves the
\* call, the snippet and summary steps are not reached.  [mgr, db, raised]
UMM_add_message_store_fails(m, d, role, content) ==
    LET b == STM_add_message(m.short_term, role, content)
        w == LTM_add_message_commit_fails(d, m.session)
    IN  [mgr |-> [m EXCEPT !.short_term.msgs = b.msgs, !.session = w.session], db |-> w.db, raised |-> "store"]

\* the test add_assistant_message makes before indexing (mutant: tests the buffer length, not the counter)
UMM_snippet_due_by_buffer(m) ==
    Len(m.short_term.msgs) % SnippetEvery = 0

\* the test add_assistant_message makes before indexing
UMM_snippet_due(m) ==
    m.session.total_messages % SnippetEvery = 0

\* UnifiedMemoryManager.add_assistant_message: buffer, store, snippet every
\* fourth message, summary check; an exception in the indexing step leaves
\* the call there, after the message is committed
UMM_add_assistant_message(m, d, dsk, cfg, content, io, tokens, llm) ==
    LET b == STM_add_message(m.short_term, "assistant", content)
        w == LTM_add_message(d, m.session, m.session_id, "assistant", content)
        m2 == [m EXCEPT !.short_term.msgs = b.msgs, !.session = w.session]
        due == UMM_snippet_due(m2)
        a == UMM_add_to_semantic_memory(m2, dsk, io)
        m3 == IF due THEN [m2 EXCEPT !.vector_store = a.vector_store] ELSE m2
        c == UMM_check_and_update_summary(m3, w.db, cfg, tokens, llm)
    IN  IF due /\ a.raised
        THEN [mgr |-> m2, db |-> w.db, disk |-> dsk, raised |-> "embedding", message |-> w.message,
              snippet |-> [submitted |-> a.submitted, text |-> a.text, added |-> FALSE],
              requested |-> FALSE, invoked |-> FALSE, summary |-> ""]
        ELSE [mgr |-> c.mgr, db |-> c.db, disk |-> IF due THEN a.disk ELSE dsk, raised |-> IF c.raised THEN "tokenizer" ELSE "no", message |-> w.message,
              snippet |-> IF due THEN [submitted |-> a.submitted, text |-> a.text, added |-> a.added] ELSE NoSnippet,
              requested |-> c.requested, invoked |-> c.invoked, summary |-> c.summary]

\* get_memory_context's recent messages (mutant: taken from the in-memory buffer)
UMM_recent_for_context_from_buffer(m, d, cfg) ==
    LET recent == STM_get_recent_messages(m.short_term.msgs, cfg.memory_buffer_messages)
    IN  [i \in 1..Len(recent) |-> [session_id |-> m.session_id, role |-> recent[i].role, content |-> recent[i].content, timestamp |-> recent[i].content]]

\* get_memory_context's recent messages: read from the store at the call
UMM_recent_for_context(m, d, cfg) ==
    LTM_get_recent_messages(d, m.session_id, cfg.memory_buffer_messages)

\* get_memory_context's semantic context (mutant: the index is searched whatever the query)
UMM_semantic_for_context_always(m, query, searchOK) ==
    [called |-> TRUE, context |-> SEM_retrieve_similar_context(m.vector_store, query, searchOK)]

\* get_memory_context's semantic context: the index is searched only for a
\* truthy query (neither None nor the empty string).  [called, context]
UMM_semantic_for_context(m, query, searchOK) ==
    IF query # None /\ query # ""
    THEN [called |-> TRUE, context |-> SEM_retrieve_similar_context(m.vector_store, query, searchOK)]
    ELSE [called |-> FALSE, context |-> <<>>]

\* UnifiedMemoryManager.get_memory_context(query): the MemoryContext, and
\* whether retrieve_similar_context was called to build it
UMM_get_memory_context(m, d, cfg, query, searchOK) ==
    [session_id |-> m.session_id,
     recent_messages |-> UMM_recent_for_context(m, d, cfg),
     conversation_summary |-> m.session.summary,
     semantic_context |-> UMM_semantic_for_context(m, query, searchOK).context,
     retrieved |-> UMM_semantic_for_context(m, query, searchOK).called,
     total_messages |-> m.session.total_messages,
     pdf_ids |-> m.pdf_ids]

-----------------------------------------------------------------------------
(* SpecBuffer: one ShortTermMemory object *)

\* the variables of the specifications that are not running
BufferIdle ==
    /\ stm = STM_init(1)
    /\ stmLog = <<>>
    /\ stmLast = [op |-> "init"]

ManagersIdle ==
    /\ mgrs = <<>>
    /\ nAdds = <<>>
    /\ writers = <<>>
    /\ ret = [op |-> "init"]

CacheIdle ==
    /\ cache = <<>>
    /\ reqLog = <<>>
    /\ cret = [op |-> "init"]

IndexIdle ==
    /\ sem = NoVectorStore
    /\ semLast = [op |-> "init"]

ReformulatorIdle ==
    rf = [op |-> "init"]

SharedIdle ==
    /\ settings = [memory_buffer_messages |-> 1, memory_summary_trigger |-> 1]
    /\ db = [sessions |-> <<>>, messages |-> {}, clock |-> 0]
    /\ disk = <<>>
    /\ nextSerial = 0

InitBuffer ==
    /\ \E k \in 1..MaxKeep : stm = STM_init(k)
    /\ stmLog = <<>>
    /\ stmLast = [op |-> "init", raised |-> FALSE, before |-> <<>>]
    /\ SharedIdle
    /\ ManagersIdle
    /\ CacheIdle
    /\ IndexIdle
    /\ ReformulatorIdle

\* add_message(role, content) with a valid or an invalid role; the content is the call's number
StmAddMessage(role) ==
    /\ Len(stmLog) < MaxBufAdds
    /\ LET content == Len(stmLog) + 1
           r == STM_add_message(stm, role, content)
       IN  /\ stm' = [stm EXCEPT !.msgs = r.msgs]
           /\ stmLog' = IF r.raised THEN stmLog ELSE Append(stmLog, [role |-> role, content |-> content])
           /\ stmLast' = [op |-> "add_message", raised |-> r.raised, before |-> stm.msgs, role |-> role]
    /\ UNCHANGED <<sharedVars, mgrVars, cacheVars, idxVars, rfVars>>

\* get_conversation_summary()
StmGetConversationSummary(tokens, llm) ==
    /\ LET r == STM_get_conversation_summary(stm, tokens, llm)
       IN  stmLast' = [op |-> "get_conversation_summary", raised |-> r.raised, before |-> stm.msgs,
                       tokens |-> tokens, llm |-> llm, summary |-> r.summary, invoked |-> r.invoked]
    /\ UNCHANGED <<stm, stmLog, sharedVars, mgrVars, cacheVars, idxVars, rfVars>>

NextBuffer ==
    \/ \E role \in Roles \cup {"system"} : StmAddMessage(role)
    \/ \E tokens \in TokenizerOutcomes, llm \in LlmOutcomes : StmGetConversationSummary(tokens, llm)

-----------------------------------------------------------------------------
(* SpecBatch: one ShortTermMemory object that is given single messages and
   batches.  The batches hold valid roles only, as the rows of the store do. *)

\* a batch of n role/content dicts, the roles in turn starting with first
BatchOf(n, first, start) ==
    [i \in 1..n |-> [role |-> IF i % 2 = 1 THEN first ELSE CHOOSE r \in Roles : r # first,
                     content |-> start + i]]

\* load_messages_batch(messages)
StmLoadMessagesBatch(n, first) ==
    /\ Len(stmLog) + n <= MaxBufAdds
    /\ LET batch == BatchOf(n, first, Len(stmLog))
       IN  /\ stm' = [stm EXCEPT !.msgs = STM_load_messages_batch(stm.msgs, batch)]
           /\ stmLog' = stmLog \o batch
           /\ stmLast' = [op |-> "load_messages_batch", raised |-> FALSE, before |-> stm.msgs, batch |-> batch]
    /\ UNCHANGED <<sharedVars, mgrVars, cacheVars, idxVars, rfVars>>

NextBatch ==
    \/ \E role \in Roles : StmAddMessage(role)
    \/ \E n \in 0..MaxBatchLen, first \in Roles : StmLoadMessagesBatch(n, first)

SpecBatch ==
    InitBuffer /\ [][NextBatch]_vars

-----------------------------------------------------------------------------
(* Spec: manager instances, one per slot, each with a database session of
   its own (one request or process each), sharing the Message Store and the
   index directory. *)

Slots == {1, 2}

SessionIds == {"a", "b"}

\* the document ids and the user id each slot's requests carry
Caller(slot) ==
    IF slot = 1 THEN [pdf_ids |-> <<1>>, user_id |-> None] ELSE [pdf_ids |-> <<2, 1>>, user_id |-> "u1"]

Queries == {None, "q"}

InitSettings ==
    settings = [memory_buffer_messages |-> BufferMessages, memory_summary_trigger |-> SummaryTrigger]

InitManagers ==
    /\ InitSettings
    /\ db = [sessions |-> <<>>, messages |-> {}, clock |-> 0]
    /\ disk = <<>>
    /\ mgrs = <<>>
    /\ nAdds = [s \in SessionIds |-> 0]
    /\ writers = [s \in SessionIds |-> {}]
    /\ nextSerial = 0
    /\ ret = [op |-> "init"]
    /\ BufferIdle
    /\ CacheIdle
    /\ IndexIdle
    /\ ReformulatorIdle

\* whether the saved index loads matters only when there is one
LoadInputs(session_id) ==
    IF session_id \in DOMAIN disk THEN BOOLEAN ELSE {TRUE}

\* slots and session ids are interchangeable: the second of each is taken
\* into use after the first
InUseOrder(slot, session_id) ==
    /\ slot = 2 => 1 \in DOMAIN mgrs
    /\ session_id = "b" => LTM_has_session(db, "a")

\* UnifiedMemoryManager(session_id, pdf_ids, db, user_id) in a slot
Construct(slot, session_id) ==
    /\ nextSerial < MaxManagers
    /\ InUseOrder(slot, session_id)
    /\ \E loadOK \in LoadInputs(session_id) :
         LET r == UMM_init(db, disk, settings, nextSerial + 1, session_id, Caller(slot).pdf_ids, Caller(slot).user_id, loadOK)
         IN  /\ mgrs' = (slot :> r.mgr) @@ mgrs
             /\ db' = r.db
             /\ ret' = [op |-> "construct", slot |-> slot, session_id |-> session_id,
                        existed |-> LTM_has_session(db, session_id), before |-> db]
    /\ nextSerial' = nextSerial + 1
    /\ UNCHANGED <<settings, disk, nAdds, writers, bufVars, cacheVars, idxVars, rfVars>>

\* the bookkeeping of a committed message
Committed(m) ==
    /\ nAdds' = [nAdds EXCEPT ![m.session_id] = @ + 1]
    /\ writers' = [writers EXCEPT ![m.session_id] = @ \cup {m.serial}]

\* the inputs of the summarizer matter only when the trigger fires
SummaryInputs(total) ==
    IF UMM_summary_due(total, settings) THEN TokenizerOutcomes \X LlmOutcomes ELSE {<<[raises |-> FALSE, count |-> MemoryMaxTokens], "raise">>}

\* the outcome of the embedding call and the save matters only when a snippet is due
EmbedInputs(total) ==
    IF total % SnippetEvery = 0 THEN IndexOutcomes ELSE {"ok"}

\* what an add call did: the call, its outcome, and the buffer view the snippet was cut from
AddReport(op, slot, m, r) ==
    [op |-> op, slot |-> slot, session_id |-> m.session_id, raised |-> r.raised,
     snippet |-> r.snippet, requested |-> r.requested, invoked |-> r.invoked, summary |-> r.summary,
     buffer |-> STM_get_recent_messages(r.mgr.short_term.msgs, 0), docs_before |-> Len(m.vector_store.docs)]

\* manager.add_user_message(content) on the manager in a slot
UserMessageCall(slot) ==
    /\ slot \in DOMAIN mgrs
    /\ \E e \in SummaryInputs(mgrs[slot].session.total_messages + 1) :
         LET m == mgrs[slot]
             r == UMM_add_user_message(m, db, disk, settings, db.clock + 1, e[1], e[2])
         IN  /\ mgrs' = [mgrs EXCEPT ![slot] = r.mgr]
             /\ db' = r.db
             /\ disk' = r.disk
             /\ Committed(m)
             /\ ret' = AddReport("add_user_message", slot, m, r)
    /\ UNCHANGED <<settings, nextSerial, bufVars, cacheVars, idxVars, rfVars>>

\* manager.add_assistant_message(content) on the manager in a slot
AssistantMessageCall(slot) ==
    /\ slot \in DOMAIN mgrs
    /\ \E e \in SummaryInputs(mgrs[slot].session.total_messages + 1), io \in EmbedInputs(mgrs[slot].session.total_messages + 1) :
         LET m == mgrs[slot]
             r == UMM_add_assistant_message(m, db, disk, settings, db.clock + 1, io, e[1], e[2])
         IN  /\ mgrs' = [mgrs EXCEPT ![slot] = r.mgr]
             /\ db' = r.db
             /\ disk' = r.disk
             /\ Committed(m)
             /\ ret' = AddReport("add_assistant_message", slot, m, r)
    /\ UNCHANGED <<settings, nextSerial, bufVars, cacheVars, idxVars, rfVars>>

\* manager.add_user_message(content)
AddUserMessage(slot) ==
    /\ db.clock < MaxMsgs
    /\ UserMessageCall(slot)

\* manager.add_assistant_message(content)
AddAssistantMessage(slot) ==
    /\ db.clock < MaxMsgs
    /\ AssistantMessageCall(slot)

NextManagers ==
    \/ \E slot \in Slots, session_id \in SessionIds : Construct(slot, session_id)
    \/ \E slot \in Slots : AddUserMessage(slot)
    \/ \E slot \in Slots : AddAssistantMessage(slot)

Spec ==
    InitManagers /\ [][NextManagers]_vars

SpecBuffer ==
    InitBuffer /\ [][NextBuffer]_vars

-----------------------------------------------------------------------------
(* SpecLifecycle: the managers of Spec together with the deletion of
   sessions.  A manager object whose session row was deleted holds an ORM
   object of a row that is gone; such managers are not used again, so a
   deletion takes the session's managers out of their slots. *)

\* UnifiedMemoryManager.clear_session: [mgr, db, disk, deleted]
UMM_clear_session(m, d, dsk) ==
    LET c == SEM_clear(m.vector_store, dsk, m.session_id)
        r == LTM_delete_session(d, m.session_id)
    IN  [mgr |-> [m EXCEPT !.short_term = STM_clear(m.short_term), !.vector_store = c.vector_store],
         db |-> r.db, disk |-> c.disk, deleted |-> r.result]

\* the slots whose managers stay in use when a session is deleted
SlotsAfterDelete(session_id) ==
    {slot \in DOMAIN mgrs : mgrs[slot].session_id # session_id}

\* the bookkeeping of a deleted session starts again
Forgotten(session_id) ==
    /\ mgrs' = [slot \in SlotsAfterDelete(session_id) |-> mgrs[slot]]
    /\ nAdds' = [nAdds EXCEPT ![session_id] = 0]
    /\ writers' = [writers EXCEPT ![session_id] = {}]

\* manager.clear_session() on the manager in a slot
ClearSession(slot) ==
    /\ slot \in DOMAIN mgrs
    /\ LET m == mgrs[slot]
           r == UMM_clear_session(m, db, disk)
       IN  /\ db' = r.db
           /\ disk' = r.disk
           /\ Forgotten(m.session_id)
           /\ ret' = [op |-> "clear_session", slot |-> slot, session_id |-> m.session_id,
                      mgr |-> r.mgr, deleted |-> r.deleted, before |-> db, disk_before |-> disk, mgr_before |-> m]
    /\ UNCHANGED <<settings, nextSerial, bufVars, cacheVars, idxVars, rfVars>>

\* long_term.delete_session(session_id)
DeleteSession(session_id) ==
    /\ LET r == LTM_delete_session(db, session_id)
       IN  /\ db' = r.db
           /\ ret' = [op |-> "delete_session", session_id |-> session_id, result |-> r.result, before |-> db]
    /\ Forgotten(session_id)
    /\ UNCHANGED <<settings, disk, nextSerial, bufVars, cacheVars, idxVars, rfVars>>

NextLifecycle ==
    \/ \E slot \in Slots, session_id \in SessionIds : Construct(slot, session_id)
    \/ \E slot \in Slots : AddUserMessage(slot)
    \/ \E slot \in Slots : AddAssistantMessage(slot)
    \/ \E slot \in Slots : ClearSession(slot)
    \/ \E session_id \in SessionIds : DeleteSession(session_id)

SpecLifecycle ==
    InitManagers /\ [][NextLifecycle]_vars

-----------------------------------------------------------------------------
(* SpecFaults: the managers of Spec with a Message Store whose commits can
   fail.  A request whose store write failed ends with the exception and its
   database session is closed: the manager leaves its slot, and the state it
   was left in is reported. *)

\* manager.add_user_message(content) or manager.add_assistant_message(content)
\* on the manager in a slot, with db.commit() raising
AddMessageStoreFails(slot, role) ==
    /\ db.clock < MaxMsgs
    /\ slot \in DOMAIN mgrs
    /\ LET m == mgrs[slot]
           content == db.clock + 1
           r == UMM_add_message_store_fails(m, db, role, content)
       IN  /\ db' = r.db
           /\ mgrs' = [s \in DOMAIN mgrs \ {slot} |-> mgrs[s]]
           /\ ret' = [op |-> IF role = "user" THEN "add_user_message" ELSE "add_assistant_message",
                      slot |-> slot, session_id |-> m.session_id, raised |-> r.raised,
                      role |-> role, content |-> content, mgr |-> r.mgr, mgr_before |-> m, before |-> db]
    /\ UNCHANGED <<settings, disk, nextSerial, nAdds, writers, bufVars, cacheVars, idxVars, rfVars>>

NextFaults ==
    \/ \E slot \in Slots, session_id \in SessionIds : Construct(slot, session_id)
    \/ \E slot \in Slots : AddUserMessage(slot)
    \/ \E slot \in Slots : AddAssistantMessage(slot)
    \/ \E slot \in Slots, role \in Roles : AddMessageStoreFails(slot, role)

SpecFaults ==
    InitManagers /\ [][NextFaults]_vars

-----------------------------------------------------------------------------
(* SpecScenario: the end-to-end run.  One manager on a new session with the
   default settings; user and assistant messages are added in turn, a user
   message first. *)

\* settings.memory_buffer_messages and settings.memory_summary_trigger as config.py sets them
DefaultBufferMessages == 10

DefaultSummaryTrigger == 15

ScenarioSession == "s1"

InitScenario ==
    /\ settings = [memory_buffer_messages |-> DefaultBufferMessages, memory_summary_trigger |-> DefaultSummaryTrigger]
    /\ LET r == UMM_init([sessions |-> <<>>, messages |-> {}, clock |-> 0], <<>>, settings, 1, ScenarioSession, <<1>>, None, TRUE)
       IN  /\ db = r.db
           /\ mgrs = <<r.mgr>>
    /\ disk = <<>>
    /\ nAdds = [s \in {ScenarioSession} |-> 0]
    /\ writers = [s \in {ScenarioSession} |-> {}]
    /\ nextSerial = 1
    /\ ret = [op |-> "construct", slot |-> 1, session_id |-> ScenarioSession]
    /\ BufferIdle
    /\ CacheIdle
    /\ IndexIdle
    /\ ReformulatorIdle

\* the odd-numbered messages of the run are the user's
ScenarioUserMessage ==
    /\ db.clock < MaxScenarioMsgs
    /\ db.clock % 2 = 0
    /\ UserMessageCall(1)

\* the even-numbered messages of the run are the assistant's
ScenarioAssistantMessage ==
    /\ db.clock < MaxScenarioMsgs
    /\ db.clock % 2 = 1
    /\ AssistantMessageCall(1)

NextScenario ==
    \/ ScenarioUserMessage
    \/ ScenarioAssistantMessage

SpecScenario ==
    InitScenario /\ [][NextScenario]_vars

-----------------------------------------------------------------------------
(* SpecIndex: one session's SemanticMemory driven through its own API.  A
   text is the sequence of its lines; the empty sequence stands for a text
   that is blank after strip(). *)

IndexSession == "a"

IndexTexts == {<<>>, <<"t1">>, <<"t2">>}

\* the snippet lists add_multiple_snippets is given: up to two snippets
IndexBatches ==
    {<<>>} \cup {<<[text |-> t]>> : t \in IndexTexts} \cup {<<[text |-> t], [text |-> u]>> : t, u \in IndexTexts}

InitIndex ==
    /\ SharedIdle
    /\ sem = SEM_load_or_create_vector_store(disk, IndexSession, TRUE)
    /\ semLast = [op |-> "load", raised |-> FALSE, result |-> <<>>]
    /\ BufferIdle
    /\ ManagersIdle
    /\ CacheIdle
    /\ ReformulatorIdle

\* SemanticMemory(session_id): a new object for the session loads the saved index
SemConstruct(loadOK) ==
    /\ sem' = SEM_load_or_create_vector_store(disk, IndexSession, loadOK)
    /\ semLast' = [op |-> "load", raised |-> FALSE, result |-> <<>>]
    /\ UNCHANGED <<sharedVars, bufVars, mgrVars, cacheVars, rfVars>>

\* semantic.add_conversation_snippet(text) with the default metadata
SemAddConversationSnippet(text, io) ==
    /\ Len(sem.docs) < MaxIndexDocs
    /\ LET r == SEM_add_conversation_snippet(sem, disk, IndexSession, text, [session_id |-> IndexSession], io)
       IN  /\ sem' = r.vector_store
           /\ disk' = r.disk
           /\ semLast' = [op |-> "add_conversation_snippet", raised |-> r.raised, result |-> <<>>]
    /\ UNCHANGED <<settings, db, nextSerial, bufVars, mgrVars, cacheVars, rfVars>>

\* semantic.add_multiple_snippets(snippets)
SemAddMultipleSnippets(snippets, io) ==
    /\ Len(sem.docs) < MaxIndexDocs
    /\ LET r == SEM_add_multiple_snippets(sem, disk, IndexSession, snippets, io)
       IN  /\ sem' = r.vector_store
           /\ disk' = r.disk
           /\ semLast' = [op |-> "add_multiple_snippets", raised |-> r.raised, result |-> <<>>]
    /\ UNCHANGED <<settings, db, nextSerial, bufVars, mgrVars, cacheVars, rfVars>>

\* semantic.retrieve_similar_context(query)
SemRetrieveSimilarContext(searchOK) ==
    /\ semLast' = [op |-> "retrieve_similar_context", raised |-> FALSE, result |-> SEM_retrieve_similar_context(sem, "q", searchOK)]
    /\ UNCHANGED <<sem, sharedVars, bufVars, mgrVars, cacheVars, rfVars>>

\* semantic.retrieve_with_scores(query)
SemRetrieveWithScores(searchOK) ==
    /\ semLast' = [op |-> "retrieve_with_scores", raised |-> FALSE, result |-> SEM_retrieve_with_scores(sem, "q", searchOK)]
    /\ UNCHANGED <<sem, sharedVars, bufVars, mgrVars, cacheVars, rfVars>>

\* semantic.clear()
SemClear ==
    /\ LET r == SEM_clear(sem, disk, IndexSession)
       IN  /\ sem' = r.vector_store
           /\ disk' = r.disk
    /\ semLast' = [op |-> "clear", raised |-> FALSE, result |-> <<>>]
    /\ UNCHANGED <<settings, db, nextSerial, bufVars, mgrVars, cacheVars, rfVars>>

NextIndex ==
    \/ \E loadOK \in BOOLEAN : SemConstruct(loadOK)
    \/ \E text \in IndexTexts, io \in IndexOutcomes : SemAddConversationSnippet(text, io)
    \/ \E snippets \in IndexBatches, io \in IndexOutcomes : SemAddMultipleSnippets(snippets, io)
    \/ \E searchOK \in BOOLEAN : SemRetrieveSimilarContext(searchOK)
    \/ \E searchOK \in BOOLEAN : SemRetrieveWithScores(searchOK)
    \/ SemClear

SpecIndex ==
    InitIndex /\ [][NextIndex]_vars

-----------------------------------------------------------------------------
(* QueryReformulator.  Texts are sequences of characters, so that strip()
   and len() are computed on them.  The LLM is outside the repository: a
   call is given its outcome, an exception or the content of its reply. *)

Whitespace == {" ", "\t", "\n"}

RECURSIVE LStrip(_)
\* text.lstrip()
LStrip(text) ==
    IF text # <<>> /\ Head(text) \in Whitespace THEN LStrip(Tail(text)) ELSE text

\* text.strip()
Strip(text) ==
    Reversed(LStrip(Reversed(LStrip(text))))

\* the shortest reformulation reformulate_query accepts
MinReformulatedLength == 10

\* the test on the stripped reply (mutant: any non-empty reply is accepted)
RF_accepts_nonempty(reformulated) ==
    reformulated # <<>>

\* the test on the stripped reply: not empty and at least 10 characters
RF_accepts(reformulated) ==
    ~(reformulated = <<>> \/ Len(reformulated) < MinReformulatedLength)

\* whether reformulate_query has any context to work with: a non-empty list
\* of messages or a summary that is neither None nor empty
RF_has_context(recent_messages, conversation_summary) ==
    ~(recent_messages = <<>> /\ conversation_summary \in {None, ""})

\* the messages _build_user_prompt quotes: the last 5
RF_quoted_messages(recent_messages) ==
    LastN(recent_messages, 5)

\* QueryReformulator.reformulate_query: [result, invoked, raised, quoted]
RF_reformulate_query(original_query, recent_messages, conversation_summary, llm) ==
    IF ~RF_has_context(recent_messages, conversation_summary)
    THEN [result |-> original_query, invoked |-> FALSE, raised |-> FALSE, quoted |-> <<>>]
    ELSE [result |-> IF llm.raises THEN original_query
                     ELSE IF RF_accepts(Strip(llm.content)) THEN Strip(llm.content)
                     ELSE original_query,
          invoked |-> TRUE, raised |-> FALSE, quoted |-> RF_quoted_messages(recent_messages)]

-----------------------------------------------------------------------------
(* SpecReformulator: reformulate_query called with every combination of inputs *)

RfQueries == {<<"i", "t", "?">>, <<"w", "h", "a", "t", " ", "i", "s", " ", "i", "t", "?">>}

RfMessage(n) == [role |-> IF n % 2 = 1 THEN "user" ELSE "assistant", content |-> n]

RfRecents == {<<>>, <<RfMessage(1)>>, [n \in 1..6 |-> RfMessage(n)]}

RfSummaries == {None, "", "s1"}

\* a reply of exactly 9 characters, and one of exactly 10
NineChars == <<"t", "h", "e", " ", "s", "c", "o", "p", "e">>

TenChars == NineChars \o <<"?">>

\* the contents a reply comes back with: empty, blank, too short (bare and
\* padded to more than 10 characters), long enough (bare and padded)
RfReplies == {<<>>, <<" ", "\n">>, NineChars, <<" ", " ">> \o NineChars \o <<"\n">>, TenChars, <<"\n">> \o TenChars \o <<" ">>}

RfLlmOutcomes == {[raises |-> TRUE, content |-> <<>>]} \cup {[raises |-> FALSE, content |-> c] : c \in RfReplies}

InitReformulator ==
    /\ ReformulatorIdle
    /\ SharedIdle
    /\ BufferIdle
    /\ ManagersIdle
    /\ CacheIdle
    /\ IndexIdle

\* reformulator.reformulate_query(original_query, recent_messages, conversation_summary)
ReformulateQuery(original_query, recent_messages, conversation_summary, llm) ==
    /\ LET r == RF_reformulate_query(original_query, recent_messages, conversation_summary, llm)
       IN  rf' = [op |-> "reformulate_query", original_query |-> original_query, recent_messages |-> recent_messages,
                  conversation_summary |-> conversation_summary, llm |-> llm,
                  result |-> r.result, invoked |-> r.invoked, raised |-> r.raised, quoted |-> r.quoted]
    /\ UNCHANGED <<sharedVars, bufVars, mgrVars, cacheVars, idxVars>>

NextReformulator ==
    \E q \in RfQueries, recent \in RfRecents, summary \in RfSummaries, llm \in RfLlmOutcomes :
        ReformulateQuery(q, recent, summary, llm)

SpecReformulator ==
    InitReformulator /\ [][NextReformulator]_vars

-----------------------------------------------------------------------------
(* ChatAssistantService: the manager cache.  A Python dict is a sequence of
   [key, value] entries in insertion order: assigning to a key that is
   present replaces its value in place, a new key goes to the end. *)

DictHas(d, key) ==
    \E i \in 1..Len(d) : d[i].key = key

DictGet(d, key) ==
    d[CHOOSE i \in 1..Len(d) : d[i].key = key].value

\* d[key] = value
DictSet(d, key, value) ==
    IF DictHas(d, key)
    THEN [i \in 1..Len(d) |-> IF d[i].key = key THEN [key |-> key, value |-> value] ELSE d[i]]
    ELSE Append(d, [key |-> key, value |-> value])

\* seq without its i-th item
RemoveAt(seq, i) ==
    SubSeq(seq, 1, i - 1) \o SubSeq(seq, i + 1, Len(seq))

RECURSIVE Sorted(_)
\* sorted(list of ints)
Sorted(seq) ==
    IF seq = <<>> THEN <<>>
    ELSE LET i == CHOOSE k \in 1..Len(seq) : \A j \in 1..Len(seq) : seq[k] <= seq[j]
         IN  <<seq[i]>> \o Sorted(RemoveAt(seq, i))

Digits == <<"0", "1", "2", "3", "4", "5", "6", "7", "8", "9">>

RECURSIVE IntStr(_)
\* str(n) for n >= 0
IntStr(n) ==
    IF n < 10 THEN Digits[n + 1] ELSE IntStr(n \div 10) \o Digits[(n % 10) + 1]

RECURSIVE JoinInts(_)
\* ", ".join of the items' str
JoinInts(t) ==
    IF Len(t) = 1 THEN IntStr(t[1]) ELSE IntStr(t[1]) \o ", " \o JoinInts(Tail(t))

\* str(tuple): "()", "(1,)", "(1, 2)"
TupleStr(t) ==
    IF Len(t) = 0 THEN "()"
    ELSE IF Len(t) = 1 THEN "(" \o IntStr(t[1]) \o ",)"
    ELSE "(" \o JoinInts(t) \o ")"

\* the cache_key _get_or_create_memory_manager looks up: f"{session_id}:{tuple(sorted(pdf_ids))}"
SVC_cache_key(session_id, pdf_ids) ==
    session_id \o ":" \o TupleStr(Sorted(pdf_ids))

\* the key _get_or_create_memory_manager stores the new manager under
SVC_store_key(session_id, pdf_ids) ==
    session_id

\* the eviction at the end of _get_or_create_memory_manager: over capacity, the first key goes
SVC_evict(c, capacity) ==
    IF Len(c) > capacity THEN [cache |-> Tail(c), evicted |-> <<Head(c).value>>] ELSE [cache |-> c, evicted |-> <<>>]

\* ChatAssistantService._get_or_create_memory_manager: [cache, db, mgr, created, evicted]
SVC_get_or_create_memory_manager(c, d, dsk, cfg, capacity, serial, session_id, pdf_ids, user_id, loadOK) ==
    LET cache_key == SVC_cache_key(session_id, pdf_ids)
        r == UMM_init(d, dsk, cfg, serial, session_id, pdf_ids, user_id, loadOK)
        e == SVC_evict(DictSet(c, SVC_store_key(session_id, pdf_ids), r.mgr), capacity)
    IN  IF DictHas(c, cache_key)
        THEN [cache |-> c, db |-> d, mgr |-> DictGet(c, cache_key), created |-> FALSE, evicted |-> <<>>]
        ELSE [cache |-> e.cache, db |-> r.db, mgr |-> r.mgr, created |-> TRUE, evicted |-> e.evicted]

-----------------------------------------------------------------------------
(* SpecCache: one ChatAssistantService asked for managers *)

CacheSessionIds == {"a", "b", "a:(1,)"}

CachePdfIdLists == {<<1>>, <<1, 2>>, <<2, 1>>}

CacheUserId == "u1"

InitCache ==
    /\ InitSettings
    /\ db = [sessions |-> <<>>, messages |-> {}, clock |-> 0]
    /\ disk = <<>>
    /\ nextSerial = 0
    /\ cache = <<>>
    /\ reqLog = <<>>
    /\ cret = [op |-> "init"]
    /\ BufferIdle
    /\ ManagersIdle
    /\ IndexIdle
    /\ ReformulatorIdle

\* service._get_or_create_memory_manager(session_id, pdf_ids, user_id)
GetOrCreateMemoryManager(session_id, pdf_ids) ==
    /\ Len(reqLog) < MaxCalls
    /\ \E loadOK \in LoadInputs(session_id) :
         LET r == SVC_get_or_create_memory_manager(cache, db, disk, settings, MaxCacheSize, nextSerial + 1, session_id, pdf_ids, CacheUserId, loadOK)
         IN  /\ cache' = r.cache
             /\ db' = r.db
             /\ nextSerial' = IF r.created THEN nextSerial + 1 ELSE nextSerial
             /\ cret' = [op |-> "get", session_id |-> session_id, pdf_ids |-> pdf_ids, created |-> r.created,
                         returned |-> r.mgr, evicted |-> r.evicted, before |-> cache]
    /\ reqLog' = Append(reqLog, [session_id |-> session_id, pdf_ids |-> pdf_ids])
    /\ UNCHANGED <<settings, disk, bufVars, mgrVars, idxVars, rfVars>>

NextCache ==
    \E session_id \in CacheSessionIds, pdf_ids \in CachePdfIdLists : GetOrCreateMemoryManager(session_id, pdf_ids)

SpecCache ==
    InitCache /\ [][NextCache]_vars

-----------------------------------------------------------------------------
(* SpecChat: one ChatAssistantService processing chat messages.  Texts are
   sequences of characters.  The query reformulation and the document
   retrieval of process_chat_message catch their failures and write nothing
   to the memory tiers; they decide only what the chat prompt holds, and the
   reply of the chat LLM is an input here. *)

\* the fixed reply of process_chat_message when the chat LLM call fails (abridged)
ApologyText == <<"I", " ", "a", "p", "o", "l", "o", "g", "i", "z", "e">>

ChatMessages == {<<"h", "i">>}

\* what llm.invoke does: an exception, or a reply
ChatLlmOutcomes ==
    {[raises |-> TRUE, content |-> <<>>],
     [raises |-> FALSE, content |-> <<" ", "o", "k", " ">>]}

\* the cache after a call mutated the manager object it had handed out
SVC_cache_with(c, mgr) ==
    [i \in 1..Len(c) |-> IF c[i].value.serial = mgr.serial THEN [key |-> c[i].key, value |-> mgr] ELSE c[i]]

\* what process_chat_message hands back when it is left by an exception
NoResponse(session_id) ==
    [session_id |-> session_id, message |-> <<>>, conversation_summary |-> None, total_messages |-> 0]

\* the end of process_chat_message, after add_assistant_message returned or raised
SVC_chat_outcome(g, a, memory_context, session_id, assistant_message) ==
    [cache |-> SVC_cache_with(g.cache, a.mgr), db |-> a.db, disk |-> a.disk, created |-> g.created, mgr |-> a.mgr,
     responded |-> a.raised = "no", raised |-> a.raised, context |-> memory_context,
     response |-> IF a.raised # "no" THEN NoResponse(session_id)
                  ELSE [session_id |-> session_id, message |-> assistant_message,
                        conversation_summary |-> memory_context.conversation_summary,
                        total_messages |-> a.mgr.session.total_messages]]

\* process_chat_message from the chat LLM call on: the reply is stripped, a
\* failure of the call is replaced by the apology, the result is persisted
SVC_chat_reply(g, u, memory_context, cfg, session_id, chat, io, e2) ==
    SVC_chat_outcome(g,
                     UMM_add_assistant_message(u.mgr, u.db, u.disk, cfg,
                                               IF chat.raises THEN ApologyText ELSE Strip(chat.content),
                                               io, e2[1], e2[2]),
                     memory_context, session_id,
                     IF chat.raises THEN ApologyText ELSE Strip(chat.content))

\* process_chat_message after add_user_message: left by its exception, or on
\* to the memory context and the reply
SVC_chat_after_user(g, u, cfg, session_id, message, use_semantic_memory, searchOK, chat, io, e2) ==
    IF u.raised # "no"
    THEN [cache |-> SVC_cache_with(g.cache, u.mgr), db |-> u.db, disk |-> u.disk, created |-> g.created, mgr |-> u.mgr,
          responded |-> FALSE, raised |-> u.raised, context |-> <<>>, response |-> NoResponse(session_id)]
    ELSE SVC_chat_reply(g, u,
                        UMM_get_memory_context(u.mgr, u.db, cfg, IF use_semantic_memory THEN message ELSE None, searchOK),
                        cfg, session_id, chat, io, e2)

\* process_chat_message once the manager is there
SVC_chat_with_manager(g, dsk, cfg, session_id, message, use_semantic_memory, searchOK, chat, io, e1, e2) ==
    SVC_chat_after_user(g, UMM_add_user_message(g.mgr, g.db, dsk, cfg, message, e1[1], e1[2]),
                        cfg, session_id, message, use_semantic_memory, searchOK, chat, io, e2)

\* ChatAssistantService.process_chat_message:
\* [cache, db, disk, created, mgr, responded, raised, context, response]
SVC_process_chat_message(c, d, dsk, cfg, capacity, serial, session_id, message, pdf_ids, user_id, use_semantic_memory, loadOK, searchOK, chat, io, e1, e2) ==
    SVC_chat_with_manager(SVC_get_or_create_memory_manager(c, d, dsk, cfg, capacity, serial, session_id, pdf_ids, user_id, loadOK),
                          dsk, cfg, session_id, message, use_semantic_memory, searchOK, chat, io, e1, e2)

\* the counter of the manager a request will be given: the inputs of the
\* summarizer and of the index matter only at the totals that trigger them
ChatManagerTotal(session_id, pdf_ids) ==
    SVC_get_or_create_memory_manager(cache, db, disk, settings, MaxCacheSize, nextSerial + 1,
                                     session_id, pdf_ids, CacheUserId, TRUE).mgr.session.total_messages

\* service.process_chat_message(session_id, message, pdf_ids, user_id, use_semantic_memory)
ProcessChatMessage(session_id, message, pdf_ids, use_semantic_memory) ==
    /\ Len(reqLog) < MaxChatCalls
    /\ \E loadOK \in LoadInputs(session_id), chat \in ChatLlmOutcomes, total \in {ChatManagerTotal(session_id, pdf_ids)} :
         \E e1 \in SummaryInputs(total + 1), e2 \in SummaryInputs(total + 2), io \in EmbedInputs(total + 2) :
           \E r \in {SVC_process_chat_message(cache, db, disk, settings, MaxCacheSize, nextSerial + 1, session_id, message,
                                              pdf_ids, CacheUserId, use_semantic_memory, loadOK, TRUE, chat, io, e1, e2)} :
             /\ cache' = r.cache
             /\ db' = r.db
             /\ disk' = r.disk
             /\ nextSerial' = IF r.created THEN nextSerial + 1 ELSE nextSerial
             /\ cret' = [op |-> "process_chat_message", session_id |-> session_id, pdf_ids |-> pdf_ids,
                         message |-> message, chat |-> chat, responded |-> r.responded, raised |-> r.raised,
                         response |-> r.response, context |-> r.context, bound_to |-> r.mgr.session_id,
                         before |-> db]
    /\ reqLog' = Append(reqLog, [session_id |-> session_id, pdf_ids |-> pdf_ids])
    /\ UNCHANGED <<settings, bufVars, mgrVars, idxVars, rfVars>>

NextChat ==
    \E session_id \in CacheSessionIds, message \in ChatMessages, pdf_ids \in CachePdfIdLists, use_semantic_memory \in BOOLEAN :
        ProcessChatMessage(session_id, message, pdf_ids, use_semantic_memory)

SpecChat ==
    InitCache /\ [][NextChat]_vars

-----------------------------------------------------------------------------
(* Properties of the Rolling Buffer, under SpecBuffer *)

\* the buffer as get_recent_messages() shows it
StmView == STM_get_recent_messages(stm.msgs, 0)

\* C2: after every add_message call of a sequence of add_message calls that
\* starts from an empty buffer, the buffer holds at most 2 * keep_size messages.
C2_BufferCap ==
    Len(stm.msgs) <= 2 * stm.k

\* an accepted add_message call has just filled the buffer to exactly 2 * keep_size
C2_Witness ==
    /\ stmLast.op = "add_message"
    /\ ~stmLast.raised
    /\ Len(stm.msgs) = 2 * stm.k
    /\ Len(stmLog) > 2 * stm.k

\* C3: an add_message call that takes the buffer over 2 * keep_size leaves
\* exactly keep_size entries, the last keep_size messages added (the new one
\* included) in the order they were added; an add_message call that does not
\* take it over 2 * keep_size appends the message and removes nothing.
C3_TruncateToLastK ==
    (stmLast.op = "add_message" /\ ~stmLast.raised) =>
        IF Len(stmLast.before) + 1 > 2 * stm.k
        THEN /\ Len(stm.msgs) = stm.k
             /\ \A i \in 1..stm.k : StmView[i] = stmLog[Len(stmLog) - stm.k + i]
        ELSE /\ Len(stm.msgs) = Len(stmLast.before) + 1
             /\ \A i \in 1..Len(stmLast.before) : stm.msgs[i] = stmLast.before[i]
             /\ StmView[Len(stm.msgs)] = stmLog[Len(stmLog)]

\* an add_message call has just truncated a buffer of 2 * keep_size entries, keep_size > 1
C3_Witness ==
    /\ stmLast.op = "add_message"
    /\ ~stmLast.raised
    /\ Len(stmLast.before) = 2 * stm.k
    /\ Len(stm.msgs) = stm.k
    /\ stm.k > 1

\* C15 (as claimed): get_conversation_summary invokes the summarization LLM
\* if and only if the buffer holds at least 4 messages and the token count of
\* the buffer string is at least max_tokens_before_summary; it returns the
\* empty string when the LLM is not invoked or its invocation fails; it never
\* raises; it leaves the buffer as it was.
C15_SummaryNeverRaises ==
    stmLast.op = "get_conversation_summary" =>
        /\ ~stmLast.raised
        /\ ~stmLast.tokens.raises =>
               (stmLast.invoked <=> (Len(stmLast.before) >= MinMessagesForSummary /\ stmLast.tokens.count >= MemoryMaxTokens))
        /\ (~stmLast.invoked \/ stmLast.llm = "raise") => stmLast.summary = ""
        /\ stm.msgs = stmLast.before

\* the part of C15 the code keeps: when counting the tokens does not fail
SummaryGuardedWhenCounted ==
    (stmLast.op = "get_conversation_summary" /\ ~stmLast.raised) =>
        /\ stmLast.invoked <=> (Len(stmLast.before) >= MinMessagesForSummary /\ stmLast.tokens.count >= MemoryMaxTokens)
        /\ (~stmLast.invoked \/ stmLast.llm = "raise") => stmLast.summary = ""
        /\ stm.msgs = stmLast.before

\* C16: add_message with a role other than 'user' or 'assistant' fails with
\* the invalid-role error, and the buffer after the failed call is the buffer
\* before it: nothing appended, nothing truncated.
C16_InvalidRoleRejected ==
    (stmLast.op = "add_message" /\ stmLast.role \notin Roles) =>
        /\ stmLast.raised
        /\ stm.msgs = stmLast.before

\* an invalid role was offered to a buffer that holds 2k messages, the length
\* at which one more append would truncate
C16_Witness ==
    /\ stmLast.op = "add_message"
    /\ stmLast.role = "system"
    /\ stmLast.raised
    /\ Len(stmLast.before) = 2 * stm.k
    /\ stm.msgs = stmLast.before

-----------------------------------------------------------------------------
(* Properties of the Message Store and the manager, under Spec *)

AddOps == {"add_user_message", "add_assistant_message"}

\* C1: a session written through a single manager instance has, after M
\* committed add_message calls, total_messages = M and M message rows.
C1_CounterAtomicity ==
    \A sid \in DOMAIN db.sessions :
        Cardinality(writers[sid]) <= 1 =>
            /\ db.sessions[sid].total_messages = nAdds[sid]
            /\ LTM_get_message_count(db, sid) = nAdds[sid]

\* one manager alone has written three messages to a session while the other session has rows too
C1_Witness ==
    /\ ret.op \in AddOps
    /\ Cardinality(writers[ret.session_id]) = 1
    /\ nAdds[ret.session_id] = 3
    /\ \E other \in SessionIds \ {ret.session_id} : nAdds[other] > 0

\* C4: for every session and every limit >= 1, get_recent_messages returns
\* messages in non-decreasing timestamp order, and the list is the suffix of
\* length min(limit, total) of what get_messages returns for the session.
C4_RecentIsSuffix ==
    \A sid \in SessionIds, limit \in 1..(MaxMsgs + 1) :
        LET recent == LTM_get_recent_messages(db, sid, limit)
            full == LTM_get_messages(db, sid, 0, 0)
        IN  /\ Len(recent) = Min(limit, Len(full))
            /\ \A i, j \in 1..Len(recent) : i < j => recent[i].timestamp <= recent[j].timestamp
            /\ \A i \in 1..Len(recent) : recent[i] = full[Len(full) - Len(recent) + i]

\* a manager was just constructed (its warm-up reads the recent messages) on a
\* session holding more rows than the limit, whose rows interleave with the other session's
C4_Witness ==
    /\ ret.op = "construct"
    /\ LTM_get_message_count(db, ret.session_id) > settings.memory_buffer_messages
    /\ \E other \in SessionIds \ {ret.session_id} :
         \E x \in LTM_rows(db, other), y, z \in LTM_rows(db, ret.session_id) : y.timestamp < x.timestamp /\ x.timestamp < z.timestamp

\* the persisted counter of the session the last call was made on
TotalAfter == db.sessions[ret.session_id].total_messages

\* C5 (as claimed): during an add_user_message or add_assistant_message call
\* the manager asks the Rolling Buffer for a summary if and only if the
\* session's total_messages after persisting the message is a positive
\* multiple of summary_trigger.
C5_SummaryRequestedExactlyAtMultiples ==
    ret.op \in AddOps =>
        (ret.requested <=> (TotalAfter > 0 /\ TotalAfter % settings.memory_summary_trigger = 0))

\* the manager's buffer after the last call, as role/content pairs
BufferAfter == STM_get_recent_messages(mgrs[ret.slot].short_term.msgs, 0)

\* the last call added one document to the index of its manager
SnippetAppended ==
    Len(mgrs[ret.slot].vector_store.docs) = ret.docs_before + 1

\* the document the last call added
AppendedText == mgrs[ret.slot].vector_store.docs[ret.docs_before + 1].page_content

\* C6 (as claimed): a snippet is appended to the Semantic Index during an add
\* call if and only if the call is add_assistant_message and total_messages
\* after persisting is a multiple of 4; the snippet is the last 4 messages of
\* the Rolling Buffer in order; add_user_message never appends.
C6_SnippetEveryFourthOfLastFour ==
    ret.op \in AddOps =>
        /\ SnippetAppended <=> (ret.op = "add_assistant_message" /\ TotalAfter % SnippetEvery = 0)
        /\ ~SnippetAppended => Len(mgrs[ret.slot].vector_store.docs) = ret.docs_before
        /\ SnippetAppended =>
             /\ Len(AppendedText) = SnippetMessages
             /\ \A i \in 1..SnippetMessages : AppendedText[i] = BufferAfter[Len(BufferAfter) - SnippetMessages + i]

\* C6 (amended): a snippet is appended if and only if the call is
\* add_assistant_message, total_messages after persisting is a multiple of 4,
\* the Rolling Buffer holds at least 2 messages and the embedding call does
\* not fail; the snippet is the last min(4, buffer length) messages of the
\* Rolling Buffer in order; add_user_message never appends.
C6_SnippetAmended ==
    ret.op \in AddOps =>
        LET n == Min(SnippetMessages, Len(BufferAfter))
        IN  /\ SnippetAppended <=>
                 /\ ret.op = "add_assistant_message"
                 /\ TotalAfter % SnippetEvery = 0
                 /\ Len(BufferAfter) >= MinSnippetMessages
                 /\ ret.raised # "embedding"
            /\ ~SnippetAppended => Len(mgrs[ret.slot].vector_store.docs) = ret.docs_before
            /\ SnippetAppended =>
                 /\ Len(AppendedText) = n
                 /\ \A i \in 1..n : AppendedText[i] = BufferAfter[Len(BufferAfter) - n + i]

\* an add_assistant_message call has just appended a snippet cut from a buffer
\* holding fewer than 4 messages
C6_Witness ==
    /\ ret.op = "add_assistant_message"
    /\ SnippetAppended
    /\ Len(BufferAfter) < SnippetMessages
    /\ TotalAfter = SnippetEvery

-----------------------------------------------------------------------------
(* Properties of the manager cache, under SpecCache *)

\* the managers the cache holds
Cached == {cache[i].value : i \in 1..Len(cache)}

\* the session ids requested so far are pairwise distinct
DistinctSessionsRequested ==
    \A i, j \in 1..Len(reqLog) : i # j => reqLog[i].session_id # reqLog[j].session_id

\* C7 (as claimed): after managers were requested for max_cache_size + 1
\* distinct sessions, starting from an empty cache, the cache holds exactly
\* max_cache_size entries: the manager of the first session requested is
\* gone and the managers of the other sessions are all present.
C7_FirstOfCPlusOneEvicted ==
    (Len(reqLog) = MaxCacheSize + 1 /\ DistinctSessionsRequested) =>
        /\ Len(cache) = MaxCacheSize
        /\ ~ \E m \in Cached : m.session_id = reqLog[1].session_id
        /\ \A j \in 2..Len(reqLog) : \E m \in Cached : m.session_id = reqLog[j].session_id

\* C8 (as claimed): after every _get_or_create_memory_manager call the cache
\* holds at most max_cache_size entries, and a manager that is evicted was
\* inserted before every manager that stays in the cache.
C8_BoundedAndOldestEvicted ==
    /\ Len(cache) <= MaxCacheSize
    /\ (cret.op = "get" /\ cret.evicted # <<>>) =>
           \A m \in Cached : cret.evicted[1].serial < m.serial

\* the part of C8 the code keeps: the cache never holds more than max_cache_size entries
CacheBounded ==
    Len(cache) <= MaxCacheSize

\* C9 (as claimed): the cache is keyed by the session id together with the
\* sorted document ids: a request for a session that has a cached manager
\* for other document ids yields a second manager, and while capacity
\* allows both stay in the cache; the order of the document ids does not
\* change the key.
C9_KeyedBySessionAndDocuments ==
    /\ \A sid \in CacheSessionIds, p, q \in CachePdfIdLists :
           Sorted(p) = Sorted(q) => SVC_cache_key(sid, p) = SVC_cache_key(sid, q)
    /\ (cret.op = "get" /\ Len(cret.before) < MaxCacheSize) =>
           \A i \in 1..Len(cret.before) :
               LET old == cret.before[i].value
               IN  (old.session_id = cret.session_id /\ Sorted(old.pdf_ids) # Sorted(cret.pdf_ids)) =>
                       /\ cret.returned.serial # old.serial
                       /\ old \in Cached
                       /\ cret.returned \in Cached

-----------------------------------------------------------------------------
(* Properties of the memory context, under Spec *)

\* C11: get_memory_context called with query None does not call
\* retrieve_similar_context and returns an empty semantic_context, whatever
\* the manager's index holds and whether or not a search would succeed.
C11_NoQueryNoRetrieval ==
    \A slot \in DOMAIN mgrs, searchOK \in BOOLEAN :
        LET c == UMM_get_memory_context(mgrs[slot], db, settings, None, searchOK)
        IN  /\ c.semantic_context = <<>>
            /\ ~c.retrieved

\* a manager whose index holds a snippet that a query does retrieve
C11_Witness ==
    \E slot \in DOMAIN mgrs :
        /\ mgrs[slot].vector_store.docs # <<>>
        /\ UMM_get_memory_context(mgrs[slot], db, settings, "q", TRUE).semantic_context # <<>>
        /\ UMM_get_memory_context(mgrs[slot], db, settings, None, TRUE).semantic_context = <<>>

-----------------------------------------------------------------------------
(* Properties of the session rows, under Spec *)

\* C17: get_or_create_session is idempotent: a call for a session id that has
\* a row, even with other doc_ids or user_id, returns that row with its
\* doc_ids, message counter and summary as they were and adds no row; a call
\* for an absent id creates the row with total_messages = 0.
C17_GetOrCreateIdempotent ==
    ret.op = "construct" =>
        LET sid == ret.session_id
            returned == mgrs[ret.slot].session
        IN  /\ ret.existed =>
                   /\ db.sessions = ret.before.sessions
                   /\ returned = ret.before.sessions[sid]
            /\ ~ret.existed =>
                   /\ DOMAIN db.sessions = DOMAIN ret.before.sessions \cup {sid}
                   /\ \A o \in DOMAIN ret.before.sessions : db.sessions[o] = ret.before.sessions[o]
                   /\ db.sessions[sid].total_messages = 0
                   /\ returned = db.sessions[sid]

\* a manager was constructed for a session that already had messages and a
\* summary, by a caller whose doc_ids and user_id differ from the row's
C17_Witness ==
    /\ ret.op = "construct"
    /\ ret.existed
    /\ db.sessions[ret.session_id].total_messages > 0
    /\ db.sessions[ret.session_id].summary # None
    /\ db.sessions[ret.session_id].pdf_ids # Caller(ret.slot).pdf_ids
    /\ db.sessions[ret.session_id].user_id # Caller(ret.slot).user_id

\* a manager was constructed for a session id that had no row
C17_WitnessCreated ==
    /\ ret.op = "construct"
    /\ ~ret.existed
    /\ DOMAIN ret.before.sessions # {}

\* C20 (as claimed): in every committed state a session's total_messages is
\* the number of message rows stored for it, also when two manager instances
\* of one session, each with its own copy of the session record, interleave
\* their add_user_message and add_assistant_message calls.
C20_CounterMatchesRowsAlways ==
    \A sid \in DOMAIN db.sessions :
        db.sessions[sid].total_messages = LTM_get_message_count(db, sid)

\* what the code keeps of C20: the counter never exceeds the number of rows,
\* and every commit that adds a row writes a counter
CounterAtMostRows ==
    \A sid \in DOMAIN db.sessions :
        /\ db.sessions[sid].total_messages <= LTM_get_message_count(db, sid)
        /\ LTM_get_message_count(db, sid) > 0 => db.sessions[sid].total_messages > 0

-----------------------------------------------------------------------------
(* Properties of deletion, under SpecLifecycle *)

\* C18: delete_session(id) on an existing session removes the session and
\* every message of it, leaves the other sessions and their messages as they
\* were, and returns true; on an absent session it returns false and leaves
\* the store unchanged; a second call leaves the store the first call left.
C18_DeleteSessionCascades ==
    ret.op = "delete_session" =>
        LET sid == ret.session_id
            was == ret.before
        IN  /\ LTM_has_session(was, sid) =>
                   /\ ret.result = TRUE
                   /\ ~LTM_has_session(db, sid)
                   /\ LTM_rows(db, sid) = {}
                   /\ \A o \in DOMAIN was.sessions \ {sid} :
                          /\ LTM_has_session(db, o)
                          /\ db.sessions[o] = was.sessions[o]
                          /\ LTM_rows(db, o) = LTM_rows(was, o)
                   /\ DOMAIN db.sessions \subseteq DOMAIN was.sessions
            /\ ~LTM_has_session(was, sid) =>
                   /\ ret.result = FALSE
                   /\ db = was
            /\ LTM_delete_session(db, sid) = [db |-> db, result |-> FALSE]

\* a session with messages was deleted while another session had messages too
C18_Witness ==
    /\ ret.op = "delete_session"
    /\ ret.result = TRUE
    /\ LTM_rows(ret.before, ret.session_id) # {}
    /\ \E o \in DOMAIN db.sessions : LTM_rows(db, o) # {}

\* delete_session was called for a session id without a row while the store held rows
C18_WitnessAbsent ==
    /\ ret.op = "delete_session"
    /\ ret.result = FALSE
    /\ db.messages # {}

\* C19: after clear_session on a manager all three tiers are empty for its
\* session: the buffer has no messages, the index has document count 0 and
\* no saved index on disk, and the store has neither the session row nor a
\* message of the session.
C19_ClearSessionEmptiesTiers ==
    ret.op = "clear_session" =>
        /\ STM_get_recent_messages(ret.mgr.short_term.msgs, 0) = <<>>
        /\ SEM_get_document_count(ret.mgr.vector_store) = 0
        /\ ret.session_id \notin DOMAIN disk
        /\ ~LTM_has_session(db, ret.session_id)
        /\ LTM_rows(db, ret.session_id) = {}

\* clear_session ran on a manager with buffered messages, an index in memory
\* and on disk, and message rows in the store
C19_Witness ==
    /\ ret.op = "clear_session"
    /\ ret.mgr_before.short_term.msgs # <<>>
    /\ SEM_get_document_count(ret.mgr_before.vector_store) > 0
    /\ ret.session_id \in DOMAIN ret.disk_before
    /\ LTM_rows(ret.before, ret.session_id) # {}
    /\ ret.deleted

-----------------------------------------------------------------------------
(* Properties of the end-to-end run, under SpecScenario *)

\* the run's messages as role/content pairs, oldest first
ScenarioHistory == UMM_messages_to_load(LTM_get_messages(db, ScenarioSession, 0, 0))

\* the manager's buffer as role/content pairs
ScenarioBuffer == STM_get_recent_messages(mgrs[1].short_term.msgs, 0)

\* the 15th message of the run has just been added
AfterFifteenth ==
    /\ ret.op \in AddOps
    /\ Len(ScenarioHistory) = DefaultSummaryTrigger

\* C12 (as claimed): in the end-to-end run (keep_size 10, summary_trigger 15),
\* after the 15th message the Rolling Buffer holds the most recent 10
\* messages.
C12_BufferHoldsLastTen ==
    AfterFifteenth => ScenarioBuffer = LastN(ScenarioHistory, DefaultBufferMessages)

\* C12 (amended): after the 15th message the Rolling Buffer holds all 15
\* messages of the run in order (15 does not exceed 2 * keep_size, so
\* nothing was truncated); the most recent 10 are its last 10 entries.
C12_BufferHoldsAllFifteen ==
    AfterFifteenth =>
        /\ ScenarioBuffer = ScenarioHistory
        /\ Len(ScenarioBuffer) = DefaultSummaryTrigger
        /\ LastN(ScenarioBuffer, DefaultBufferMessages) = LastN(ScenarioHistory, DefaultBufferMessages)

\* the 15th message, a user message, has just been added and the session's
\* counter stands at 15
C12_Witness ==
    /\ AfterFifteenth
    /\ ret.op = "add_user_message"
    /\ db.sessions[ScenarioSession].total_messages = DefaultSummaryTrigger
    /\ ret.requested

-----------------------------------------------------------------------------
(* Properties of the Semantic Index, under SpecIndex *)

\* the calls C13 is about
IndexOps == {"add_conversation_snippet", "add_multiple_snippets", "retrieve_similar_context", "retrieve_with_scores", "load"}

\* C13 (as claimed): none of add_conversation_snippet, add_multiple_snippets,
\* retrieve_similar_context, retrieve_with_scores and the loading of the
\* index raises to its caller, whatever the embedding service and the index
\* do.
C13_IndexNeverRaises ==
    semLast.op \in IndexOps => ~semLast.raised

\* the part of C13 the code keeps: retrieval and loading never raise
IndexReadsNeverRaise ==
    semLast.op \in {"retrieve_similar_context", "retrieve_with_scores", "load"} => ~semLast.raised

-----------------------------------------------------------------------------
(* Properties of the Query Reformulator, under SpecReformulator *)

\* C14: reformulate_query always returns and never raises; when the LLM call
\* raises, or its stripped reply is empty or shorter than 10 characters, the
\* result is the original query; with no recent messages and no summary the
\* original query is returned and the LLM is not invoked.
C14_ReformulateFallsBack ==
    rf.op = "reformulate_query" =>
        /\ ~rf.raised
        /\ (rf.invoked /\ (rf.llm.raises \/ Len(Strip(rf.llm.content)) < MinReformulatedLength)) =>
               rf.result = rf.original_query
        /\ (rf.recent_messages = <<>> /\ rf.conversation_summary \in {None, ""}) =>
               (rf.result = rf.original_query /\ ~rf.invoked)

\* the LLM was invoked and its reply, more than 10 characters as received,
\* is 9 characters once stripped: the original query came back
C14_Witness ==
    /\ rf.op = "reformulate_query"
    /\ rf.invoked
    /\ ~rf.llm.raises
    /\ Len(rf.llm.content) > MinReformulatedLength
    /\ Len(Strip(rf.llm.content)) = MinReformulatedLength - 1
    /\ rf.result = rf.original_query

-----------------------------------------------------------------------------
(* Properties of the session counter across commits, under Spec *)

\* C21 (as claimed): the persisted total_messages of a session never
\* decreases from one committed state to the next, across any interleaving
\* of add_user_message, add_assistant_message and summary updates made by
\* manager instances that share the store.
C21_CounterNeverDecreases ==
    [][\A sid \in DOMAIN db.sessions :
           sid \in DOMAIN db'.sessions =>
               db'.sessions[sid].total_messages >= db.sessions[sid].total_messages]_vars

\* what the code keeps of C21: a commit made by the only writer of a session
\* raises the counter by one, and a summary update leaves it as it is
CounterGrowsForSingleWriter ==
    [][\A sid \in DOMAIN db.sessions :
           (sid \in DOMAIN db'.sessions /\ Cardinality(writers'[sid]) <= 1) =>
               db'.sessions[sid].total_messages >= db.sessions[sid].total_messages]_vars

-----------------------------------------------------------------------------
(* Properties of cache hits, under SpecCache *)

\* the entries of the cache before the last call whose manager was created
\* for the session and the document ids of that call
CachedForRequest ==
    {i \in 1..Len(cret.before) :
        /\ cret.before[i].value.session_id = cret.session_id
        /\ Sorted(cret.before[i].value.pdf_ids) = Sorted(cret.pdf_ids)}

\* C22 (as claimed): a _get_or_create_memory_manager call for a session id
\* and document ids for which the service created a manager earlier that is
\* still in the cache returns that manager and constructs no new one.
C22_CachedManagerReturned ==
    (cret.op = "get" /\ CachedForRequest # {}) =>
        /\ ~cret.created
        /\ \E i \in CachedForRequest : cret.returned = cret.before[i].value

\* what the code keeps of C22: a call that constructs nothing returns a
\* manager the cache held and leaves the cache and the store as they were
HitReturnsCachedEntry ==
    (cret.op = "get" /\ ~cret.created) =>
        /\ \E i \in 1..Len(cret.before) : cret.returned = cret.before[i].value
        /\ cache = cret.before

\* C30 (as claimed): the manager _get_or_create_memory_manager returns is
\* bound to the requested session, for any earlier calls and any session-id
\* strings.
C30_ReturnedManagerOfRequestedSession ==
    cret.op = "get" => cret.returned.session_id = cret.session_id

\* what the code keeps of C30: a manager constructed by the call is bound to
\* the requested session
CreatedManagerOfRequestedSession ==
    (cret.op = "get" /\ cret.created) => cret.returned.session_id = cret.session_id

-----------------------------------------------------------------------------
(* Properties of the session values in the memory context, under Spec *)

\* the context a manager returns carries the persisted summary and counter
ContextCarriesPersisted(slot) ==
    LET m == mgrs[slot]
        c == UMM_get_memory_context(m, db, settings, None, TRUE)
    IN  /\ c.conversation_summary = db.sessions[m.session_id].summary
        /\ c.total_messages = db.sessions[m.session_id].total_messages

\* C23 (as claimed): the conversation_summary and total_messages returned by
\* get_memory_context are the values persisted for the session at the time
\* of the call, also when another manager instance has added messages or
\* replaced the summary of the session since this manager's last own write.
C23_ContextSessionValuesPersisted ==
    \A slot \in DOMAIN mgrs : ContextCarriesPersisted(slot)

\* what the code keeps of C23: the manager that made the last commit returns
\* the persisted values
ContextPersistedAfterOwnWrite ==
    ret.op \in AddOps \cup {"construct"} => ContextCarriesPersisted(ret.slot)

-----------------------------------------------------------------------------
(* Properties of construction, under Spec *)

\* the persisted history of a session, oldest first, as role/content pairs
PersistedHistory(d, session_id) ==
    UMM_messages_to_load(OrderByTimestamp(LTM_rows(d, session_id)))

\* C24: constructing a manager gets or creates the persisted session and
\* warms the buffer so that its (role, content) sequence is that of the last
\* min(buffer_messages, total) persisted messages in chronological order;
\* construction persists no message and changes neither the message counter
\* nor the summary of the session.
C24_ConstructionWarmsBuffer ==
    ret.op = "construct" =>
        LET sid == ret.session_id
            m == mgrs[ret.slot]
            history == PersistedHistory(db, sid)
        IN  /\ LTM_has_session(db, sid)
            /\ STM_get_recent_messages(m.short_term.msgs, 0)
                   = LastN(history, Min(settings.memory_buffer_messages, Len(history)))
            /\ db.messages = ret.before.messages
            /\ ret.existed =>
                   /\ db.sessions[sid].total_messages = ret.before.sessions[sid].total_messages
                   /\ db.sessions[sid].summary = ret.before.sessions[sid].summary

\* a manager was constructed in a slot for a session that holds more
\* messages than buffer_messages, the newest of them an assistant message
C24_Witness ==
    /\ ret.op = "construct"
    /\ ret.existed
    /\ LTM_get_message_count(db, ret.session_id) > settings.memory_buffer_messages
    /\ Len(mgrs[ret.slot].short_term.msgs) = settings.memory_buffer_messages
    /\ mgrs[ret.slot].short_term.msgs[settings.memory_buffer_messages].type = "AIMessage"

-----------------------------------------------------------------------------
(* Properties of a failing store write, under SpecFaults *)

\* C25: add_user_message and add_assistant_message append to the buffer
\* before they write to the store; when the store write fails the failure
\* reaches the caller without a retry, the message stays in the buffer, and
\* the message rows and total_messages of the session are as before.
C25_StoreFailureLeavesBufferAhead ==
    (ret.op \in AddOps /\ ret.raised = "store") =>
        LET sid == ret.session_id
            buffer == STM_get_recent_messages(ret.mgr.short_term.msgs, 0)
        IN  /\ buffer # <<>>
            /\ buffer[Len(buffer)] = [role |-> ret.role, content |-> ret.content]
            /\ LTM_rows(db, sid) = LTM_rows(ret.before, sid)
            /\ db.sessions[sid].total_messages = ret.before.sessions[sid].total_messages
            /\ ~ \E row \in LTM_rows(db, sid) : row.content = ret.content
            /\ db = ret.before

\* the store write of an assistant message failed on a manager that had
\* written messages before: the buffer is one message ahead of the rows
C25_Witness ==
    /\ ret.op = "add_assistant_message"
    /\ ret.raised = "store"
    /\ Len(ret.mgr_before.short_term.msgs) > settings.memory_buffer_messages
    /\ Len(ret.mgr.short_term.msgs) = Len(ret.mgr_before.short_term.msgs) + 1
    /\ LTM_get_message_count(db, ret.session_id) = Len(ret.mgr_before.short_term.msgs)

-----------------------------------------------------------------------------
(* Properties of the persisted summary, under Spec *)

\* the last call asked the buffer for a summary and got a non-empty one
SummaryProduced ==
    /\ ret.op \in AddOps
    /\ ret.requested
    /\ ret.summary # ""

\* C26: the persisted summary of a session changes only in an add call in
\* which the summarization trigger fires and the buffer returns a non-empty
\* summary, and it is then exactly that summary; in every other add call
\* (trigger not fired, or an empty summary) it is left as it was.
C26_SummaryChangesOnlyWhenProduced ==
    [][\A sid \in DOMAIN db.sessions :
           /\ SummaryProduced' /\ ret'.session_id = sid => db'.sessions[sid].summary = ret'.summary
           /\ ~(SummaryProduced' /\ ret'.session_id = sid) => db'.sessions[sid].summary = db.sessions[sid].summary]_vars

\* an add call persisted the summary it was given while another session
\* exists, whose summary stays absent
C26_Witness ==
    /\ SummaryProduced
    /\ db.sessions[ret.session_id].summary = ret.summary
    /\ \E o \in DOMAIN db.sessions \ {ret.session_id} : db.sessions[o].summary = None

\* an add call at which the trigger fired got an empty summary
C26_WitnessEmpty ==
    /\ ret.op \in AddOps
    /\ ret.requested
    /\ ret.summary = ""
    /\ ret.invoked

-----------------------------------------------------------------------------
(* Properties of bulk loading, under SpecBatch *)

\* C27 (as claimed): load_messages_batch appends all given messages in order
\* without truncating after each item and applies a single truncation check
\* after the bulk append, so that after it returns the buffer length is at
\* most 2 * messages_to_keep for a batch of any length.
C27_BatchLoadKeepsCap ==
    stmLast.op = "load_messages_batch" =>
        /\ Len(stm.msgs) <= 2 * stm.k
        /\ \E n \in 0..Len(stmLast.before) :
               StmView = LastN(STM_get_recent_messages(stmLast.before, 0), n) \o stmLast.batch
                   \/ StmView = LastN(STM_get_recent_messages(stmLast.before, 0) \o stmLast.batch, stm.k)

\* what the code keeps of C27: every message of the batch is appended, in
\* order, after the messages the buffer held, and nothing is dropped
BatchAppendedInOrder ==
    stmLast.op = "load_messages_batch" =>
        StmView = STM_get_recent_messages(stmLast.before, 0) \o stmLast.batch

-----------------------------------------------------------------------------
(* Properties of a chat turn, under SpecChat *)

\* the rows the last process_chat_message call persisted
TurnRows == db.messages \ cret.before.messages

\* the last call persisted exactly two rows for the session sid, the user
\* message and then the returned assistant message, and the context it built
\* holds the first and not the second
TurnPersistedFor(sid) ==
    /\ Cardinality(TurnRows) = 2
    /\ \E u, a \in TurnRows :
           /\ u.session_id = sid /\ u.role = "user" /\ u.content = cret.message
           /\ a.session_id = sid /\ a.role = "assistant" /\ a.content = cret.response.message
           /\ u.timestamp < a.timestamp
           /\ \E i \in 1..Len(cret.context.recent_messages) : cret.context.recent_messages[i] = u
           /\ ~ \E i \in 1..Len(cret.context.recent_messages) : cret.context.recent_messages[i] = a
    /\ cret.chat.raises => cret.response.message = ApologyText

\* C28 (as claimed): every process_chat_message call that returns a response
\* has persisted exactly two messages for the session, first the user
\* message and then one assistant message, with the context assembled
\* between the two writes; when the chat LLM call fails the assistant
\* message persisted and returned is the fixed apology text.
C28_TurnPersistsTwoMessages ==
    (cret.op = "process_chat_message" /\ cret.responded) => TurnPersistedFor(cret.session_id)

\* what the code keeps of C28: the two messages are persisted, in this order
\* and around the context, for the session the manager in use is bound to
TurnPersistedForManagersSession ==
    (cret.op = "process_chat_message" /\ cret.responded) => TurnPersistedFor(cret.bound_to)

\* a call returned the apology after a failed chat LLM call
ApologyReturned ==
    /\ cret.op = "process_chat_message"
    /\ cret.responded
    /\ cret.chat.raises
    /\ cret.response.message = ApologyText

-----------------------------------------------------------------------------
(* Properties of the buffer against the persisted history, under SpecScenario
   and Spec *)

\* C29: for a session written by a single manager instance, with no store
\* failure, after construction and after every add_user_message or
\* add_assistant_message call the buffer's (role, content) sequence is a
\* suffix of the session's persisted chronological history, of length at
\* least min(messages_to_keep, number of persisted messages).
C29_BufferSuffixOfHistory ==
    (ret.op \in AddOps \cup {"construct"} /\ Cardinality(writers[ret.session_id]) <= 1) =>
        LET m == mgrs[ret.slot]
            history == PersistedHistory(db, ret.session_id)
            buffer == STM_get_recent_messages(m.short_term.msgs, 0)
        IN  /\ Len(buffer) <= Len(history)
            /\ buffer = LastN(history, Len(buffer))
            /\ Len(buffer) >= Min(m.short_term.k, Len(history))

\* the add call that made the buffer exceed twice its keep size: the buffer
\* was cut to the newest messages_to_keep entries of a longer history
C29_Witness ==
    /\ ret.op \in AddOps
    /\ Cardinality(writers[ret.session_id]) = 1
    /\ Len(mgrs[ret.slot].short_term.msgs) = mgrs[ret.slot].short_term.k
    /\ LTM_get_message_count(db, ret.session_id) = 2 * mgrs[ret.slot].short_term.k + 1

\* a manager was constructed for a session that one manager has written more
\* messages to than the buffer loads
C29_WitnessConstructed ==
    /\ ret.op = "construct"
    /\ Cardinality(writers[ret.session_id]) = 1
    /\ LTM_get_message_count(db, ret.session_id) > Len(mgrs[ret.slot].short_term.msgs)

=============================================================================
